---- MODULE Spec2Model ----
(***************************************************************************)
(* apply_patch wrapper (src/src/main.rs): configuration persistence, the   *)
(* argv scan of run_config_command and the mode dispatch of run_main,      *)
(* over a small POSIX-like file system shared by concurrent invocations.   *)
(***************************************************************************)
EXTENDS Naturals, Integers, Sequences, FiniteSets, TLC

\* ------------------------------------------------------------------ bounds
MaxArgs == 3
MaxInvocations == 3
MaxFaults == 1
ShortWrite == 2

\* --------------------------------------------------------------- constants
DEFAULT_REFUSE_MESSAGE == "NOTE TO LLM: refuse shell-based patching"
DEFAULT_WARN_MESSAGE == "NOTE TO LLM: patch applied by shell wrapper"

\* Option<T> values; val of a None is a fixed filler of the right shape.
NoneStr == [some |-> FALSE, val |-> ""]
Some(v) == [some |-> TRUE, val |-> v]
NoneOptStr == [some |-> FALSE, val |-> NoneStr]
NoneMode == [some |-> FALSE, val |-> "Apply"]
NonePath == [some |-> FALSE, val |-> <<>>]

\* One line of output: the pieces of the format string, in order.
Line1(a) == [text |-> a, arg |-> <<>>]
Line2(a, b) == [text |-> a, arg |-> <<b>>]
LinePath(a, path) == [text |-> a, arg |-> path]

\* enum Mode
Mode == {"Apply", "Refuse", "Warn"}

\* impl Default for Mode
ModeDefault == "Apply"

\* impl Default for Config
ConfigDefault == [mode |-> "Apply", refuse_message |-> NoneStr, warn_message |-> NoneStr]

\* parse_mode
parse_mode(s) ==
    CASE s = "apply" -> Some("Apply")
      [] s = "refuse" -> Some("Refuse")
      [] s = "warn" -> Some("Warn")
      [] OTHER -> NoneMode

\* let mode_str = match cfg.mode { ... } of --show-config
mode_str(m) ==
    CASE m = "Apply" -> "apply"
      [] m = "Refuse" -> "refuse"
      [] m = "Warn" -> "warn"

\* ------------------------------------------------------ JSON (serde_json)
\* A document is a sequence of tokens: the opening brace, one token per
\* key/value pair, the closing brace.  t is the JSON type of the value.
Tok(k, t, s) == [k |-> k, t |-> t, s |-> s]
OpenBrace == Tok("{", "", "")
CloseBrace == Tok("}", "", "")
Hole == Tok("\\0", "", "")

\* Mutant of ModeToJson: the variant names as written, rename_all left out.
ModeToJson_VariantName(m) == m

\* #[derive(Serialize)] #[serde(rename_all = "lowercase")] enum Mode
ModeToJson(m) ==
    CASE m = "Apply" -> "apply"
      [] m = "Refuse" -> "refuse"
      [] m = "Warn" -> "warn"

\* Option<String> as a JSON value
OptStrJson(k, o) == IF o.some THEN Tok(k, "str", o.val) ELSE Tok(k, "null", "")

\* serde_json::to_vec_pretty(cfg) of #[derive(Serialize)] Config
to_vec_pretty(cfg) ==
    << OpenBrace,
       Tok("mode", "str", ModeToJson(cfg.mode)),
       OptStrJson("refuse_message", cfg.refuse_message),
       OptStrJson("warn_message", cfg.warn_message),
       CloseBrace >>

\* #[derive(Deserialize)] #[serde(rename_all = "lowercase")] enum Mode
ModeFromJson(t) ==
    IF t.t # "str" THEN NoneMode
    ELSE CASE t.s = "apply" -> Some("Apply")
           [] t.s = "refuse" -> Some("Refuse")
           [] t.s = "warn" -> Some("Warn")
           [] OTHER -> NoneMode

\* Deserialize of Option<String>: ok is FALSE on a value that is neither a
\* string nor null.
OptStrFromJson(t) ==
    CASE t.t = "str" -> [ok |-> TRUE, val |-> Some(t.s)]
      [] t.t = "null" -> [ok |-> TRUE, val |-> NoneStr]
      [] OTHER -> [ok |-> FALSE, val |-> NoneStr]

IsObject(b) ==
    /\ Len(b) >= 2
    /\ b[1] = OpenBrace
    /\ b[Len(b)] = CloseBrace
    /\ \A j \in 2..(Len(b) - 1) : b[j].k \notin {"{", "}", "\\0"}

KeyAt(b, key) == {j \in 2..(Len(b) - 1) : b[j].k = key}

\* serde_json::from_slice::<Config>(bytes): #[serde(default)] fills a missing
\* field; a duplicate field or a value of the wrong type is an error; unknown
\* keys are skipped.
from_slice(b) ==
    IF ~IsObject(b) THEN [ok |-> FALSE, val |-> ConfigDefault]
    ELSE LET km == KeyAt(b, "mode")
             kr == KeyAt(b, "refuse_message")
             kw == KeyAt(b, "warn_message")
             one(S) == CHOOSE j \in S : TRUE
             m == IF km = {} THEN Some(ModeDefault) ELSE ModeFromJson(b[one(km)])
             r == IF kr = {} THEN [ok |-> TRUE, val |-> NoneStr] ELSE OptStrFromJson(b[one(kr)])
             w == IF kw = {} THEN [ok |-> TRUE, val |-> NoneStr] ELSE OptStrFromJson(b[one(kw)])
         IN IF \/ Cardinality(km) > 1 \/ Cardinality(kr) > 1 \/ Cardinality(kw) > 1
               \/ ~m.some \/ ~r.ok \/ ~w.ok
            THEN [ok |-> FALSE, val |-> ConfigDefault]
            ELSE [ok |-> TRUE,
                  val |-> [mode |-> m.val, refuse_message |-> r.val, warn_message |-> w.val]]

\* Mutant of load_config: a document that does not decode still gives its
\* mode when the mode pair can be read.
load_config_KeepMode(rd) ==
    IF ~rd.ok THEN ConfigDefault
    ELSE LET d == from_slice(rd.bytes)
             km == {j \in 1..Len(rd.bytes) : rd.bytes[j].k = "mode"}
             m == IF km = {} THEN NoneMode ELSE ModeFromJson(rd.bytes[CHOOSE j \in km : TRUE])
         IN IF d.ok THEN d.val
            ELSE IF m.some THEN [ConfigDefault EXCEPT !.mode = m.val] ELSE ConfigDefault

\* load_config, given the outcome rd of std::fs::read(path)
load_config(rd) ==
    IF ~rd.ok THEN ConfigDefault
    ELSE LET d == from_slice(rd.bytes) IN IF d.ok THEN d.val ELSE ConfigDefault

\* ------------------------------------------------------------ environment
\* Paths are sequences of components.
Env(o, x, h) == [APPLY_PATCH_CONFIG |-> o, XDG_CONFIG_HOME |-> x, HOME |-> h]

\* Mutant of config_path: XDG_CONFIG_HOME is looked at before the override.
config_path_XdgFirst(e) ==
    IF e.XDG_CONFIG_HOME.some
    THEN Some(e.XDG_CONFIG_HOME.val \o <<".apply_patch", "config.json">>)
    ELSE IF e.APPLY_PATCH_CONFIG.some THEN Some(e.APPLY_PATCH_CONFIG.val)
         ELSE IF e.HOME.some
              THEN Some(e.HOME.val \o <<".apply_patch", "config.json">>)
              ELSE NonePath

\* config_path
config_path(e) ==
    IF e.APPLY_PATCH_CONFIG.some THEN Some(e.APPLY_PATCH_CONFIG.val)
    ELSE IF e.XDG_CONFIG_HOME.some
         THEN Some(e.XDG_CONFIG_HOME.val \o <<".apply_patch", "config.json">>)
         ELSE IF e.HOME.some
              THEN Some(e.HOME.val \o <<".apply_patch", "config.json">>)
              ELSE NonePath

\* ------------------------------------------------------------- invocations
Procs == {1, 2}

\* The tokens argv is drawn from: every flag run_config_command matches, an
\* option it does not know, the three mode literals and one other word.
DashTokens ==
    {"--show-config", "--mode", "--apply", "--refuse", "--warn",
     "--set-refuse-message", "--clear-refuse-message",
     "--set-warn-message", "--clear-warn-message", "-h", "--help", "-z"}
Tokens == DashTokens \cup {"apply", "refuse", "warn", "X"}

\* An OsString that into_string() rejects.
NonUtf8 == "\\xFF"

\* str::starts_with('-')
starts_with_dash(tok) == tok \in DashTokens

SeqsUpTo(S, n) == UNION {[1..k -> S] : k \in 0..n}
AllArgvs == SeqsUpTo(Tokens, MaxArgs)

VARIABLES
    proc,        \* proc[p]: the locals of invocation p and where it stands
    fs,          \* the config directory: its two entries and the inodes
    env,         \* the environment variables config_path reads
    faultsLeft,  \* I/O faults the file system may still inject
    launched,    \* invocations started so far
    prev,        \* outcome of the invocation that ran before the current one
    stored,      \* the policy the commands that succeeded so far ask for
    fs0          \* the file system as the first invocation found it

vars == <<proc, fs, env, faultsLeft, launched, prev, stored, fs0>>

\* ------------------------------------------------------------ file system
\* The directory of the resolved config path: whether it exists, the inode
\* its entries config.json (cfg) and config.json.tmp (tmp) name (0: no such
\* entry), and the content of every inode.
Inodes == {1, 2, 3, 4}
FsEmpty == [dir |-> FALSE, cfg |-> 0, tmp |-> 0, data |-> [n \in Inodes |-> <<>>]]
FsWith(doc) == [dir |-> TRUE, cfg |-> 1, tmp |-> 0,
                data |-> [n \in Inodes |-> IF n = 1 THEN doc ELSE <<>>]]

\* std::fs::read(path)
fs_read(f, fault) ==
    IF fault \/ f.cfg = 0 THEN [ok |-> FALSE, bytes |-> <<>>]
    ELSE [ok |-> TRUE, bytes |-> f.data[f.cfg]]

\* An inode lives while an entry names it or a process holds it open.
Live(f, pr, n) == n = f.cfg \/ n = f.tmp \/ \E q \in Procs : pr[q].fd = n

\* The kernel frees the inodes nothing refers to.
Reclaim(f, pr) == [f EXCEPT !.data = [n \in Inodes |-> IF Live(f, pr, n) THEN @[n] ELSE <<>>]]

FreeInode(f, pr) == CHOOSE n \in Inodes : ~Live(f, pr, n) /\ \A m \in Inodes : m < n => Live(f, pr, m)

\* write(2) of chunk at offset off
WriteAt(content, off, chunk) ==
    LET top == IF Len(content) > off + Len(chunk) THEN Len(content) ELSE off + Len(chunk)
    IN [j \in 1..top |->
          IF j > off /\ j <= off + Len(chunk) THEN chunk[j - off]
          ELSE IF j <= Len(content) THEN content[j] ELSE Hole]

\* The outcomes the file system may give an operation: FALSE is success,
\* TRUE an injected I/O error.
FaultChoices == IF faultsLeft > 0 THEN {FALSE, TRUE} ELSE {FALSE}

\* The locals of run_main / run_config_command / save_config at process
\* start; loaded, load_result, saving, renamed, engine and fs_start record
\* what the invocation did.
ProcInit ==
    [pc |-> "idle", argv |-> <<>>, i |-> 0, show |-> FALSE, mode |-> NoneMode,
     refuse_message |-> NoneOptStr, warn_message |-> NoneOptStr,
     positional |-> <<>>, path |-> NonePath, cfg |-> ConfigDefault,
     data |-> <<>>, fd |-> 0, woff |-> 0, patch_arg |-> "",
     code |-> -1, out |-> <<>>, err |-> <<>>,
     loaded |-> ConfigDefault, load_result |-> "none", saving |-> FALSE,
     renamed |-> FALSE, engine |-> "none", fs_start |-> FsEmpty,
     stdin |-> "unread", faults |-> {}, rename_no |-> 0, saves |-> 0,
     loads |-> 0]

\* return Some(code) / return code: the process ends with this exit code
Exit(r, c) == [r EXCEPT !.pc = "done", !.code = c]
ExitErr(r, c, line) == [r EXCEPT !.pc = "done", !.code = c, !.err = Append(@, line)]

\* print_help
HelpText == Line1("apply_patch: usage")
HelpShown(r) == \E j \in 1..Len(r.out) : r.out[j] = HelpText

\* Mutant of HelpArm: the usage text is printed and the scan goes on.
HelpArm_NoReturn(r) == [r EXCEPT !.out = Append(@, HelpText), !.i = @ + 1]

\* "-h" | "--help" => { print_help(); return Some(0); }
HelpArm(r) == [Exit(r, 0) EXCEPT !.out = Append(@, HelpText)]

\* Mutant of ScanStep: a field already named by an earlier flag keeps the
\* earlier value.
ScanStep_FirstWins(r) ==
    LET tok == r.argv[r.i + 1]
        has_val == r.i + 2 <= Len(r.argv)
        val == r.argv[r.i + 2]
        keepMode(m) == IF r.mode.some THEN r.mode ELSE Some(m)
        keepRefuse(v) == IF r.refuse_message.some THEN r.refuse_message ELSE Some(v)
        keepWarn(v) == IF r.warn_message.some THEN r.warn_message ELSE Some(v)
    IN CASE tok = "--show-config" -> [r EXCEPT !.show = TRUE, !.i = @ + 1]
         [] tok = "--mode" ->
              IF ~has_val THEN ExitErr(r, 2, Line1("Error: --mode requires a value."))
              ELSE IF ~parse_mode(val).some
                   THEN ExitErr(r, 2, Line2("Error: invalid --mode value: ", val))
                   ELSE [r EXCEPT !.mode = keepMode(parse_mode(val).val), !.i = @ + 2]
         [] tok = "--apply" -> [r EXCEPT !.mode = keepMode("Apply"), !.i = @ + 1]
         [] tok = "--refuse" -> [r EXCEPT !.mode = keepMode("Refuse"), !.i = @ + 1]
         [] tok = "--warn" -> [r EXCEPT !.mode = keepMode("Warn"), !.i = @ + 1]
         [] tok = "--set-refuse-message" ->
              IF ~has_val
              THEN ExitErr(r, 2, Line1("Error: --set-refuse-message requires a value."))
              ELSE [r EXCEPT !.refuse_message = keepRefuse(Some(val)), !.i = @ + 2]
         [] tok = "--clear-refuse-message" ->
              [r EXCEPT !.refuse_message = keepRefuse(NoneStr), !.i = @ + 1]
         [] tok = "--set-warn-message" ->
              IF ~has_val
              THEN ExitErr(r, 2, Line1("Error: --set-warn-message requires a value."))
              ELSE [r EXCEPT !.warn_message = keepWarn(Some(val)), !.i = @ + 2]
         [] tok = "--clear-warn-message" ->
              [r EXCEPT !.warn_message = keepWarn(NoneStr), !.i = @ + 1]
         [] tok \in {"-h", "--help"} -> HelpArm(r)
         [] starts_with_dash(tok) -> ExitErr(r, 2, Line2("Error: unknown option: ", tok))
         [] OTHER -> [r EXCEPT !.positional = Append(@, tok), !.i = @ + 1]

\* One iteration of the while loop of run_config_command on the locals r.
ScanStep(r) ==
    LET tok == r.argv[r.i + 1]
        has_val == r.i + 2 <= Len(r.argv)
        val == r.argv[r.i + 2]
    IN CASE tok = "--show-config" -> [r EXCEPT !.show = TRUE, !.i = @ + 1]
         [] tok = "--mode" ->
              IF ~has_val THEN ExitErr(r, 2, Line1("Error: --mode requires a value."))
              ELSE IF ~parse_mode(val).some
                   THEN ExitErr(r, 2, Line2("Error: invalid --mode value: ", val))
                   ELSE [r EXCEPT !.mode = parse_mode(val), !.i = @ + 2]
         [] tok = "--apply" -> [r EXCEPT !.mode = Some("Apply"), !.i = @ + 1]
         [] tok = "--refuse" -> [r EXCEPT !.mode = Some("Refuse"), !.i = @ + 1]
         [] tok = "--warn" -> [r EXCEPT !.mode = Some("Warn"), !.i = @ + 1]
         [] tok = "--set-refuse-message" ->
              IF ~has_val
              THEN ExitErr(r, 2, Line1("Error: --set-refuse-message requires a value."))
              ELSE [r EXCEPT !.refuse_message = Some(Some(val)), !.i = @ + 2]
         [] tok = "--clear-refuse-message" ->
              [r EXCEPT !.refuse_message = Some(NoneStr), !.i = @ + 1]
         [] tok = "--set-warn-message" ->
              IF ~has_val
              THEN ExitErr(r, 2, Line1("Error: --set-warn-message requires a value."))
              ELSE [r EXCEPT !.warn_message = Some(Some(val)), !.i = @ + 2]
         [] tok = "--clear-warn-message" ->
              [r EXCEPT !.warn_message = Some(NoneStr), !.i = @ + 1]
         [] tok \in {"-h", "--help"} -> HelpArm(r)
         [] starts_with_dash(tok) -> ExitErr(r, 2, Line2("Error: unknown option: ", tok))
         [] OTHER -> [r EXCEPT !.positional = Append(@, tok), !.i = @ + 1]

\* Mutant of has_config_flags: --show-config alone does not make the
\* invocation a configuration command.
has_config_flags_NoShow(r) ==
    r.mode.some \/ r.refuse_message.some \/ r.warn_message.some

\* has_config_flags
has_config_flags(r) ==
    r.show \/ r.mode.some \/ r.refuse_message.some \/ r.warn_message.some

\* What follows the loop: not a configuration command, the positional
\* check, or on to the configuration command proper.
AfterScan(r) ==
    IF ~has_config_flags(r) THEN [r EXCEPT !.pc = "main_load"]
    ELSE IF r.positional # <<>>
         THEN ExitErr(r, 2,
                Line1("Error: configuration flags cannot be combined with a PATCH argument."))
         ELSE [r EXCEPT !.pc = "cfg_path"]

\* Mutant of ApplyMutations: a clear (Some(None)) leaves the message as it
\* was loaded.
ApplyMutations_NoClear(c, r) ==
    [mode |-> IF r.mode.some THEN r.mode.val ELSE c.mode,
     refuse_message |-> IF r.refuse_message.some /\ r.refuse_message.val.some
                        THEN r.refuse_message.val ELSE c.refuse_message,
     warn_message |-> IF r.warn_message.some /\ r.warn_message.val.some
                      THEN r.warn_message.val ELSE c.warn_message]

\* Mutant of ApplyMutations: the mutations are applied to a default config,
\* not to the loaded one.
ApplyMutations_FromDefault(c, r) ==
    [mode |-> IF r.mode.some THEN r.mode.val ELSE ModeDefault,
     refuse_message |-> IF r.refuse_message.some THEN r.refuse_message.val ELSE NoneStr,
     warn_message |-> IF r.warn_message.some THEN r.warn_message.val ELSE NoneStr]

\* The mutations of a configuration command applied to the loaded config.
ApplyMutations(c, r) ==
    [mode |-> IF r.mode.some THEN r.mode.val ELSE c.mode,
     refuse_message |-> IF r.refuse_message.some THEN r.refuse_message.val
                        ELSE c.refuse_message,
     warn_message |-> IF r.warn_message.some THEN r.warn_message.val
                      ELSE c.warn_message]

\* Mutant of mutation_requested: --show-config counts as a change too.
mutation_requested_OrShow(r) ==
    r.show \/ r.mode.some \/ r.refuse_message.some \/ r.warn_message.some

\* mode_changed || refuse_message_changed || warn_message_changed
mutation_requested(r) == r.mode.some \/ r.refuse_message.some \/ r.warn_message.some

\* Mutant of ReportLines: the report shows the config as it was loaded.
ReportLines_Loaded(r) ==
    IF r.show
    THEN << LinePath("Config file: ", r.path.val),
            Line2("mode: ", mode_str(r.loaded.mode)),
            Line2("refuse_message: ", IF r.loaded.refuse_message.some THEN "custom" ELSE "default"),
            Line2("warn_message: ", IF r.loaded.warn_message.some THEN "custom" ELSE "default") >>
    ELSE << LinePath("Updated config: ", r.path.val) >>

\* The report of a configuration command that got through.
ReportLines(r) ==
    IF r.show
    THEN << LinePath("Config file: ", r.path.val),
            Line2("mode: ", mode_str(r.cfg.mode)),
            Line2("refuse_message: ", IF r.cfg.refuse_message.some THEN "custom" ELSE "default"),
            Line2("warn_message: ", IF r.cfg.warn_message.some THEN "custom" ELSE "default") >>
    ELSE << LinePath("Updated config: ", r.path.val) >>

\* ------------------------------------------------------------------ inputs
\* What read_to_string(stdin) may give: nothing, a patch, a read error.
StdinOutcomes ==
    {[ok |-> TRUE, text |-> ""], [ok |-> TRUE, text |-> "PATCH"], [ok |-> FALSE, text |-> ""]}

\* What codex_apply_patch::apply_patch may return.
EngineOutcomes == {"ok", "fail"}

HomeEnv == Env(NonePath, NonePath, Some(<<"home">>))
NoEnv == Env(NonePath, NonePath, NonePath)

\* Every way the three variables can be set or unset.
OverrideFile == <<"o", "cfg.json">>
AllEnvs ==
    { Env(o, x, h) : o \in {NonePath, Some(OverrideFile)},
                     x \in {NonePath, Some(<<"xdg">>)},
                     h \in {NonePath, Some(<<"home">>)} }

\* Command lines of the runs that follow one another or run side by side.
CommandArgvs ==
    { <<>>, <<"X">>, <<"X", "X">>,
      <<"--show-config">>,
      <<"--apply">>, <<"--refuse">>, <<"--warn">>,
      <<"--mode", "apply">>, <<"--mode", "refuse">>, <<"--mode", "warn">>,
      <<"--mode", "refuse", "--show-config">>, <<"--show-config", "--mode", "warn">>,
      <<"--mode", "apply", "--show-config">>, <<"--mode", "warn", "--show-config">>,
      <<"--apply", "--show-config">>, <<"--refuse", "--show-config">>,
      <<"--warn", "--show-config">>, <<"--show-config", "--apply">>,
      <<"--set-refuse-message", "X">>, <<"--set-refuse-message", "refuse">>,
      <<"--clear-refuse-message">>,
      <<"--set-warn-message", "X">>, <<"--set-warn-message", "warn">>,
      <<"--clear-warn-message">>,
      <<"--refuse", "--set-refuse-message", "X">>,
      <<"--set-warn-message", "X", "--show-config">>,
      <<"--refuse", "-z">>, <<"--warn", "X">>, <<"--mode">>, <<"-h">>, <<"--refuse", "-h">>,
      <<NonUtf8>> }

ConcurrentArgvs == { <<"X">>, <<"--set-warn-message", "X">>, <<"--mode", "warn">> }

\* Configs an earlier run may have persisted.
OldConfig == [mode |-> "Refuse", refuse_message |-> Some("old"), warn_message |-> NoneStr]
PersistedConfigs ==
    { OldConfig,
      [mode |-> "Refuse", refuse_message |-> NoneStr, warn_message |-> NoneStr],
      [mode |-> "Warn", refuse_message |-> NoneStr, warn_message |-> Some("old")] }

\* Documents no save wrote: cut short, or edited by hand.
TruncatedDoc == <<OpenBrace, Tok("mode", "str", "refuse")>>
BadModeDoc ==
    <<OpenBrace, Tok("mode", "str", "bogus"), Tok("refuse_message", "str", "old"), CloseBrace>>
NoModeDoc == <<OpenBrace, Tok("refuse_message", "str", "old"), CloseBrace>>
ForeignDocs == {TruncatedDoc, BadModeDoc, NoModeDoc}

PrevNone == [valid |-> FALSE, code |-> -1, mutated |-> FALSE, argv |-> <<>>,
             cfg |-> ConfigDefault]

\* ----------------------------------------------------------------- actions
\* What the invocation in slot p leaves behind for the one that follows it.
PrevOf(r) ==
    [valid |-> TRUE, code |-> r.code, mutated |-> mutation_requested(r) /\ ~HelpShown(r),
     argv |-> r.argv, cfg |-> r.cfg]

\* The policy in force once the commands so far have been obeyed: a command
\* that exits 0 puts each field it names to the value it names.
InForce(st, r) ==
    [mode |-> IF r.mode.some THEN r.mode.val ELSE st.mode,
     refuse_message |-> IF r.refuse_message.some THEN r.refuse_message.val
                        ELSE st.refuse_message,
     warn_message |-> IF r.warn_message.some THEN r.warn_message.val
                      ELSE st.warn_message]

StoredAfter(st, r) ==
    IF r.pc = "done" /\ r.code = 0 /\ ~HelpShown(r) THEN InForce(st, r) ELSE st

\* Process start: run_main collects argv; run_config_command initialises
\* its locals.
Launch(p, a) ==
    LET base == [ProcInit EXCEPT !.argv = a, !.fs_start = fs]
        r == proc[p]
    IN /\ proc' = [proc EXCEPT ![p] =
                     IF \E j \in 1..Len(a) : a[j] = NonUtf8
                     THEN ExitErr(base, 1,
                            Line1("Error: apply_patch requires a UTF-8 PATCH argument."))
                     ELSE [base EXCEPT !.pc = "scan"]]
       /\ launched' = launched + 1
       /\ prev' = IF r.pc = "done" THEN PrevOf(r) ELSE prev
       /\ stored' = StoredAfter(stored, r)
       /\ UNCHANGED <<fs, env, faultsLeft, fs0>>

Local(p, r) ==
    /\ proc' = [proc EXCEPT ![p] = r]
    /\ UNCHANGED <<fs, env, faultsLeft, launched, prev, stored, fs0>>

\* Mutant of Scan: every iteration that goes on advances the index by two.
Scan_StepsByTwo(p) ==
    /\ proc[p].pc = "scan"
    /\ proc[p].i < Len(proc[p].argv)
    /\ LET n == ScanStep(proc[p])
       IN Local(p, IF n.pc = "scan" THEN [n EXCEPT !.i = proc[p].i + 2] ELSE n)

\* while i < args.len() { match args[i] ... }
Scan(p) ==
    /\ proc[p].pc = "scan"
    /\ proc[p].i < Len(proc[p].argv)
    /\ Local(p, ScanStep(proc[p]))

\* Loop exit, has_config_flags and the positional check.
Classify(p) ==
    /\ proc[p].pc = "scan"
    /\ proc[p].i >= Len(proc[p].argv)
    /\ Local(p, AfterScan(proc[p]))

\* let Some(path) = config_path() else { ...; return Some(1) }
CfgPath(p) ==
    /\ proc[p].pc = "cfg_path"
    /\ LET path == config_path(env)
       IN Local(p, IF path.some
                   THEN [proc[p] EXCEPT !.path = path, !.pc = "cfg_load"]
                   ELSE ExitErr(proc[p], 1,
                          Line1("Error: could not determine config path (HOME/XDG_CONFIG_HOME not set).")))

LoadResult(f, fault) ==
    IF fault THEN "unreadable"
    ELSE IF f.cfg = 0 THEN "missing"
         ELSE IF from_slice(f.data[f.cfg]).ok THEN "ok" ELSE "undecodable"

\* let mut cfg = load_config(&path); the mutations; whether to save.
CfgLoad(p) ==
    /\ proc[p].pc = "cfg_load"
    /\ \E fault \in FaultChoices :
         LET r == proc[p]
             c == load_config(fs_read(fs, fault))
         IN /\ proc' = [proc EXCEPT ![p] =
                  [r EXCEPT !.loaded = c, !.load_result = LoadResult(fs, fault),
                            !.loads = @ + 1,
                            !.cfg = ApplyMutations(c, r),
                            !.pc = IF mutation_requested(r) THEN "save_mkdir" ELSE "report"]]
            /\ faultsLeft' = IF fault THEN faultsLeft - 1 ELSE faultsLeft
    /\ UNCHANGED <<fs, env, launched, prev, stored, fs0>>

\* History: the step of this invocation that an I/O error hit.
Faulted(r, step) == [r EXCEPT !.faults = @ \cup {step}]

\* Mutant of SaveFailed: a failed save is reported as a usage error.
SaveFailed_Usage(r) == ExitErr([r EXCEPT !.fd = 0], 2, Line1("Error: failed to write config"))

\* save_config returned Err: "failed to write config", exit 1.
SaveFailed(r) == ExitErr([r EXCEPT !.fd = 0], 1, Line1("Error: failed to write config"))

FsStep(p, r, f, fault) ==
    LET np == [proc EXCEPT ![p] = r]
    IN /\ proc' = np
       /\ fs' = Reclaim(f, np)
       /\ faultsLeft' = IF fault THEN faultsLeft - 1 ELSE faultsLeft
       /\ UNCHANGED <<env, launched, prev, stored, fs0>>

\* std::fs::create_dir_all(parent)?; the serialisation of cfg.
SaveMkdir(p) ==
    /\ proc[p].pc = "save_mkdir"
    /\ \E fault \in FaultChoices :
         LET r == [proc[p] EXCEPT !.saving = TRUE, !.saves = @ + 1]
         IN IF fault THEN FsStep(p, SaveFailed(Faulted(r, "mkdir")), fs, TRUE)
            ELSE FsStep(p, [r EXCEPT !.data = to_vec_pretty(r.cfg), !.pc = "save_open"],
                        [fs EXCEPT !.dir = TRUE], FALSE)

\* std::fs::write(&tmp, data)?: open with O_CREAT | O_TRUNC.
SaveOpen(p) ==
    /\ proc[p].pc = "save_open"
    /\ \E fault \in FaultChoices :
         LET r == proc[p]
             n == IF fs.tmp # 0 THEN fs.tmp ELSE FreeInode(fs, proc)
         IN IF fault THEN FsStep(p, SaveFailed(Faulted(r, "write")), fs, TRUE)
            ELSE FsStep(p, [r EXCEPT !.fd = n, !.woff = 0, !.pc = "save_write"],
                        [fs EXCEPT !.tmp = n, !.data[n] = <<>>], FALSE)

\* What one write(2) of k remaining tokens may transfer: all of them, or a
\* short write of ShortWrite tokens.
ChunkSizes(k) == {k} \cup {n \in {ShortWrite} : n < k}

\* std::fs::write(&tmp, data)?: write_all, one write(2) per chunk, then close.
SaveWrite(p) ==
    /\ proc[p].pc = "save_write"
    /\ \E fault \in FaultChoices, n \in ChunkSizes(Len(proc[p].data) - proc[p].woff) :
         LET r == proc[p]
             chunk == SubSeq(r.data, r.woff + 1, r.woff + n)
             last == r.woff + n = Len(r.data)
         IN IF fault THEN FsStep(p, SaveFailed(Faulted(r, "write")), fs, TRUE)
            ELSE FsStep(p, [r EXCEPT !.woff = @ + n,
                                     !.fd = IF last THEN 0 ELSE @,
                                     !.pc = IF last THEN "save_exists" ELSE @],
                        [fs EXCEPT !.data[r.fd] = WriteAt(@, r.woff, chunk)], FALSE)

\* if path.exists()
SaveExists(p) ==
    /\ proc[p].pc = "save_exists"
    /\ Local(p, [proc[p] EXCEPT !.pc = IF fs.cfg # 0 THEN "save_remove" ELSE "save_rename"])

\* Mutant of SaveRemove: the result of remove_file is propagated with ?.
SaveRemove_Propagates(p) ==
    /\ proc[p].pc = "save_remove"
    /\ \E fault \in FaultChoices :
         IF fault THEN FsStep(p, SaveFailed(Faulted(proc[p], "remove")), fs, TRUE)
         ELSE FsStep(p, [proc[p] EXCEPT !.pc = "save_rename"], [fs EXCEPT !.cfg = 0], FALSE)

\* let _ = std::fs::remove_file(path);
SaveRemove(p) ==
    /\ proc[p].pc = "save_remove"
    /\ \E fault \in FaultChoices :
         LET r == [proc[p] EXCEPT !.pc = "save_rename"]
         IN FsStep(p, IF fault THEN Faulted(r, "remove") ELSE r,
                   IF fault THEN fs ELSE [fs EXCEPT !.cfg = 0], fault)

\* History: how many renames onto the config path have been performed.
RenamesSoFar == Cardinality({q \in Procs : proc[q].renamed})

\* std::fs::rename(tmp, path)?; Ok(())
SaveRename(p) ==
    /\ proc[p].pc = "save_rename"
    /\ \E fault \in FaultChoices :
         LET r == proc[p]
         IN IF fault THEN FsStep(p, SaveFailed(Faulted(r, "rename")), fs, TRUE)
            ELSE IF fs.tmp = 0 THEN FsStep(p, SaveFailed(r), fs, FALSE)
            ELSE FsStep(p, [r EXCEPT !.renamed = TRUE, !.rename_no = RenamesSoFar + 1,
                                     !.pc = "report"],
                        [fs EXCEPT !.cfg = fs.tmp, !.tmp = 0], FALSE)

\* if show { ... } else { "Updated config" }; Some(0)
Report(p) ==
    /\ proc[p].pc = "report"
    /\ Local(p, [Exit(proc[p], 0) EXCEPT !.out = @ \o ReportLines(proc[p])])

\* Mutant of MainLoad: a missing config file is created with the defaults.
MainLoad_CreatesDefault(p) ==
    /\ proc[p].pc = "main_load"
    /\ LET r == proc[p]
           path == config_path(env)
           c == IF path.some THEN load_config(fs_read(fs, FALSE)) ELSE ConfigDefault
       IN /\ proc' = [proc EXCEPT ![p] =
                [r EXCEPT !.path = path, !.loaded = c, !.cfg = c,
                          !.load_result = IF path.some THEN LoadResult(fs, FALSE) ELSE "nopath",
                          !.pc = "main_payload"]]
          /\ fs' = IF path.some /\ fs.cfg = 0 THEN FsWith(to_vec_pretty(ConfigDefault)) ELSE fs
    /\ UNCHANGED <<env, faultsLeft, launched, prev, stored, fs0>>

\* Mutant of MainLoad: an unresolved config path ends the invocation as it
\* does a configuration command.
MainLoad_NoPathFails(p) ==
    /\ proc[p].pc = "main_load"
    /\ \E fault \in FaultChoices :
         LET r == proc[p]
             path == config_path(env)
             c == load_config(fs_read(fs, fault))
         IN /\ path.some \/ ~fault
            /\ proc' = [proc EXCEPT ![p] =
                  IF ~path.some
                  THEN ExitErr(r, 1,
                         Line1("Error: could not determine config path (HOME/XDG_CONFIG_HOME not set)."))
                  ELSE [r EXCEPT !.path = path, !.loaded = c, !.cfg = c,
                                 !.load_result = LoadResult(fs, fault),
                                 !.loads = @ + 1, !.pc = "main_payload"]]
            /\ faultsLeft' = IF fault THEN faultsLeft - 1 ELSE faultsLeft
    /\ UNCHANGED <<fs, env, launched, prev, stored, fs0>>

\* let cfg = config_path().as_deref().map(load_config).unwrap_or_default();
MainLoad(p) ==
    /\ proc[p].pc = "main_load"
    /\ \E fault \in FaultChoices :
         LET r == proc[p]
             path == config_path(env)
             c == IF path.some THEN load_config(fs_read(fs, fault)) ELSE ConfigDefault
         IN /\ path.some \/ ~fault
            /\ proc' = [proc EXCEPT ![p] =
                  [r EXCEPT !.path = path, !.loaded = c, !.cfg = c,
                            !.load_result = IF path.some THEN LoadResult(fs, fault) ELSE "nopath",
                            !.loads = IF path.some THEN @ + 1 ELSE @,
                            !.pc = "main_payload"]]
            /\ faultsLeft' = IF fault THEN faultsLeft - 1 ELSE faultsLeft
    /\ UNCHANGED <<fs, env, launched, prev, stored, fs0>>

\* Mutant of MainPayload: of several positionals the first is the payload.
MainPayload_FirstOfMany(p) ==
    /\ proc[p].pc = "main_payload"
    /\ LET r == proc[p]
       IN IF Len(r.argv) = 0
          THEN \E s \in StdinOutcomes :
                  LET rs == [r EXCEPT !.stdin = IF ~s.ok THEN "error"
                                                ELSE IF s.text = "" THEN "empty" ELSE "text"]
                  IN Local(p, IF ~s.ok
                              THEN ExitErr(rs, 1, Line1("Error: Failed to read PATCH from stdin."))
                              ELSE IF s.text = ""
                                   THEN ExitErr(rs, 2, Line1("Usage: apply_patch 'PATCH'"))
                                   ELSE [rs EXCEPT !.patch_arg = s.text, !.pc = "dispatch"])
          ELSE Local(p, [r EXCEPT !.patch_arg = r.argv[1], !.pc = "dispatch"])

\* let patch_arg = match args.as_slice() { [] => stdin, [body] => body, _ => 2 }
MainPayload(p) ==
    /\ proc[p].pc = "main_payload"
    /\ LET r == proc[p]
       IN CASE Len(r.argv) = 0 ->
                 \E s \in StdinOutcomes :
                    LET rs == [r EXCEPT !.stdin = IF ~s.ok THEN "error"
                                                  ELSE IF s.text = "" THEN "empty" ELSE "text"]
                    IN Local(p, IF ~s.ok
                                THEN ExitErr(rs, 1, Line1("Error: Failed to read PATCH from stdin."))
                                ELSE IF s.text = ""
                                     THEN ExitErr(rs, 2, Line1("Usage: apply_patch 'PATCH'"))
                                     ELSE [rs EXCEPT !.patch_arg = s.text, !.pc = "dispatch"])
            [] Len(r.argv) = 1 ->
                 Local(p, [r EXCEPT !.patch_arg = r.argv[1], !.pc = "dispatch"])
            [] OTHER ->
                 Local(p, ExitErr(r, 2, Line1("Error: apply_patch accepts exactly one argument.")))

\* Mutant of Dispatch: Refuse prints its message and goes on to the engine.
Dispatch_RefuseFallsThrough(p) ==
    /\ proc[p].pc = "dispatch"
    /\ LET r == proc[p]
           msg == IF r.cfg.refuse_message.some THEN r.cfg.refuse_message.val
                  ELSE DEFAULT_REFUSE_MESSAGE
       IN Local(p, IF r.cfg.mode = "Refuse"
                   THEN [r EXCEPT !.out = Append(@, Line1(msg)), !.pc = "engine"]
                   ELSE [r EXCEPT !.pc = "engine"])

\* match cfg.mode { Mode::Refuse => print the refuse message; otherwise call
\* the engine }
Dispatch(p) ==
    /\ proc[p].pc = "dispatch"
    /\ LET r == proc[p]
           msg == IF r.cfg.refuse_message.some THEN r.cfg.refuse_message.val
                  ELSE DEFAULT_REFUSE_MESSAGE
       IN Local(p, IF r.cfg.mode = "Refuse"
                   THEN [Exit(r, 0) EXCEPT !.out = Append(@, Line1(msg))]
                   ELSE [r EXCEPT !.pc = "engine"])

\* The per-file summary the engine writes to stdout when it succeeds.
EngineSummary == Line1("engine: summary of changes")

\* Mutant of Engine: the warn message is printed before the engine runs.
Engine_WarnFirst(p) ==
    /\ proc[p].pc = "engine"
    /\ \E res \in EngineOutcomes :
         LET r == [proc[p] EXCEPT !.engine = res]
             msg == IF r.cfg.warn_message.some THEN r.cfg.warn_message.val
                    ELSE DEFAULT_WARN_MESSAGE
             warned == IF r.cfg.mode = "Warn" THEN [r EXCEPT !.out = Append(@, Line1(msg))]
                       ELSE r
         IN Local(p, IF res = "ok"
                     THEN [Exit(warned, 0) EXCEPT !.out = Append(@, EngineSummary)]
                     ELSE ExitErr(warned, 1, Line1("engine: diagnostics")))

\* codex_apply_patch::apply_patch(...) and the arms on its result
Engine(p) ==
    /\ proc[p].pc = "engine"
    /\ \E res \in EngineOutcomes :
         LET r == [proc[p] EXCEPT !.engine = res]
             msg == IF r.cfg.warn_message.some THEN r.cfg.warn_message.val
                    ELSE DEFAULT_WARN_MESSAGE
             summary == EngineSummary
         IN Local(p, IF res = "ok"
                     THEN [Exit(r, 0) EXCEPT !.out =
                             IF r.cfg.mode = "Warn" THEN @ \o <<summary, Line1(msg)>>
                             ELSE Append(@, summary)]
                     ELSE ExitErr(r, 1, Line1("engine: diagnostics")))

\* The process is killed inside save_config (elsewhere a kill changes no
\* file and is the same as the process not running on); the kernel closes
\* its file.
Crash(p) ==
    /\ proc[p].pc \in {"save_mkdir", "save_open", "save_write", "save_exists",
                       "save_remove", "save_rename"}
    /\ FsStep(p, [proc[p] EXCEPT !.pc = "crashed", !.fd = 0], fs, FALSE)

Step(p) ==
    \/ Scan(p) \/ Classify(p) \/ CfgPath(p) \/ CfgLoad(p)
    \/ SaveMkdir(p) \/ SaveOpen(p) \/ SaveWrite(p) \/ SaveExists(p)
    \/ SaveRemove(p) \/ SaveRename(p) \/ Report(p)
    \/ MainLoad(p) \/ MainPayload(p) \/ Dispatch(p) \/ Engine(p)

\* ---------------------------------------------------------- specifications
InitCommon ==
    /\ proc = [p \in Procs |-> ProcInit]
    /\ launched = 0
    /\ prev = PrevNone
    /\ fs0 = fs

\* Concurrent invocations on one config path, with crashes and I/O errors.
Init ==
    /\ fs \in {FsEmpty, FsWith(to_vec_pretty(OldConfig)), FsWith(TruncatedDoc),
               FsWith(BadModeDoc)}
    /\ env = HomeEnv
    /\ faultsLeft = MaxFaults
    /\ stored = ConfigDefault
    /\ InitCommon

Start(p) ==
    /\ proc[p].pc = "idle"
    /\ \E a \in ConcurrentArgvs : Launch(p, a)

Next == \E p \in Procs : Start(p) \/ Step(p) \/ Crash(p)

Spec == Init /\ [][Next]_vars

\* Invocations one after the other, each running to its exit; no faults.
SeqInit ==
    /\ \E c \in PersistedConfigs \cup {ConfigDefault} :
         /\ fs = IF c = ConfigDefault THEN FsEmpty ELSE FsWith(to_vec_pretty(c))
         /\ stored = c
         /\ env \in IF c = ConfigDefault THEN {HomeEnv, NoEnv} ELSE {HomeEnv}
    /\ faultsLeft = 0
    /\ InitCommon

SeqStart ==
    /\ proc[1].pc \in {"idle", "done"}
    /\ launched < MaxInvocations
    /\ \E a \in CommandArgvs : Launch(1, a)

SeqNext == SeqStart \/ Step(1)

SeqSpec == SeqInit /\ [][SeqNext]_vars

\* One invocation on any command line of up to MaxArgs tokens; no faults.
OneInit ==
    /\ fs \in {FsEmpty, FsWith(to_vec_pretty(OldConfig))}
    /\ env = HomeEnv
    /\ faultsLeft = 0
    /\ stored = ConfigDefault
    /\ InitCommon

OneStart ==
    /\ proc[1].pc = "idle"
    /\ \E a \in AllArgvs : Launch(1, a)

OneNext == OneStart \/ Step(1)

OneSpec == OneInit /\ [][OneNext]_vars

\* One invocation on any command line of up to MaxArgs tokens, over a saved
\* config, that is scheduled until it exits: standard input reaches
\* end-of-file and the engine call returns.
WarnConfig == [mode |-> "Warn", refuse_message |-> NoneStr, warn_message |-> Some("old")]
LiveInit ==
    /\ fs = FsWith(to_vec_pretty(WarnConfig))
    /\ env = HomeEnv
    /\ faultsLeft = 0
    /\ stored = WarnConfig
    /\ InitCommon

LiveSpec == LiveInit /\ [][OneNext]_vars /\ WF_vars(Step(1))

\* One invocation in any environment, on a disk that holds no config, a
\* saved one or a document no save wrote; with I/O errors.
RunInit ==
    /\ fs \in {FsEmpty} \cup {FsWith(to_vec_pretty(c)) : c \in PersistedConfigs}
               \cup {FsWith(d) : d \in ForeignDocs}
    /\ env \in AllEnvs
    /\ faultsLeft = MaxFaults
    /\ stored = ConfigDefault
    /\ InitCommon

RunStart ==
    /\ proc[1].pc = "idle"
    /\ \E a \in CommandArgvs : Launch(1, a)

RunNext == RunStart \/ Step(1)

RunSpec == RunInit /\ [][RunNext]_vars

\* ------------------------------------------------------------------ claims
NoCrash == \A q \in Procs : proc[q].pc # "crashed"
NoFault == faultsLeft = MaxFaults
HasLoaded(r) == r.load_result # "none"
OldDisk == FsWith(to_vec_pretty(OldConfig))

\* A patch invocation that got its payload (one positional, or non-empty
\* standard input) and ran to its exit.
PatchRunDone(r) ==
    /\ r.pc = "done"
    /\ HasLoaded(r)
    /\ ~has_config_flags(r)
    /\ Len(r.argv) = 1 \/ (Len(r.argv) = 0 /\ r.patch_arg # "")

\* C1: while one invocation saves over an existing valid config (no crash,
\* no I/O error), every load by another invocation returns the complete old
\* config or the complete new one.
C1_ReaderSeesOldOrNew ==
    \A w \in Procs : \A r \in Procs \ {w} :
        ( /\ fs0 = OldDisk
          /\ NoCrash /\ NoFault
          /\ ~mutation_requested(proc[r])
          /\ HasLoaded(proc[r]) )
        => proc[r].loaded \in {OldConfig, ApplyMutations(OldConfig, proc[w])}

\* C3: the canonical config path never holds a half-written document: what
\* it holds is the document that was there at the start or the complete
\* serialisation some invocation wrote.
C3_NeverHalfWritten ==
    fs.cfg # 0 =>
        \/ fs0.cfg # 0 /\ fs.data[fs.cfg] = fs0.data[fs0.cfg]
        \/ \E p \in Procs : proc[p].data # <<>> /\ fs.data[fs.cfg] = proc[p].data

\* C4: a save that ended (crash or failing step) before its rename, with no
\* other invocation saving, leaves the canonical file as it was.
C4_AbortLeavesCanonical ==
    \A p \in Procs :
        ( /\ proc[p].saving /\ ~proc[p].renamed
          /\ proc[p].pc \in {"crashed", "done"}
          /\ \A q \in Procs \ {p} : ~proc[q].saving )
        => fs_read(fs, FALSE) = fs_read(fs0, FALSE)

\* C2: with Refuse in force and no refuse override, a patch invocation that
\* got a payload prints the built-in refuse notice and nothing else, does
\* not call the engine, changes no file and exits 0.
C2_RefuseBuiltin ==
    \A p \in Procs :
        ( /\ PatchRunDone(proc[p])
          /\ stored.mode = "Refuse" /\ ~stored.refuse_message.some )
        => /\ proc[p].out = <<Line1(DEFAULT_REFUSE_MESSAGE)>>
           /\ proc[p].engine = "none"
           /\ proc[p].code = 0
           /\ fs = proc[p].fs_start

C2_Witness ==
    /\ PatchRunDone(proc[1])
    /\ stored.mode = "Refuse" /\ ~stored.refuse_message.some
    /\ prev.valid /\ prev.argv = <<"--clear-refuse-message">> /\ prev.code = 0
    /\ Len(proc[1].argv) = 0

\* C5: after a configuration command that requested a mutation has exited 0,
\* the load of the next invocation returns the config that command computed.
C5_RoundTrip ==
    ( /\ prev.valid /\ prev.code = 0 /\ prev.mutated
      /\ HasLoaded(proc[1]) )
    => proc[1].loaded = prev.cfg

C5_Witness ==
    /\ prev.valid /\ prev.code = 0 /\ prev.mutated
    /\ prev.argv = <<"--refuse", "--set-refuse-message", "X">>
    /\ HasLoaded(proc[1])
    /\ proc[1].loaded = [mode |-> "Refuse", refuse_message |-> Some("X"),
                         warn_message |-> Some("old")]

\* C6: a load of a missing, unreadable or undecodable file returns the
\* all-defaults config, and the invocation goes on: if it ends in an error,
\* the error is one of a later step.
LaterErrors ==
    { "Error: failed to write config", "engine: diagnostics",
      "Error: Failed to read PATCH from stdin.", "Usage: apply_patch 'PATCH'",
      "Error: apply_patch accepts exactly one argument." }

C6_LoadNeverFails ==
    \A p \in Procs :
        proc[p].load_result \in {"missing", "unreadable", "undecodable"}
        => /\ proc[p].loaded = ConfigDefault
           /\ proc[p].pc # "cfg_load" /\ proc[p].pc # "main_load"
           /\ (proc[p].pc = "done" /\ proc[p].code # 0)
                => (Len(proc[p].err) = 1 /\ proc[p].err[1].text \in LaterErrors)

C6_Witness ==
    /\ proc[1].load_result = "undecodable" /\ proc[2].load_result = "unreadable"
    /\ proc[1].pc = "done" /\ proc[1].code = 0
    /\ proc[2].pc = "done" /\ proc[2].code = 0
    /\ fs0 = FsWith(BadModeDoc)

\* C7: an invocation that ends with a usage error (exit 2) has changed no
\* file and has not called the engine.
C7_UsageErrorNoChange ==
    \A p \in Procs :
        (proc[p].pc = "done" /\ proc[p].code = 2)
        => /\ fs = proc[p].fs_start
           /\ proc[p].engine = "none"
           /\ proc[p].out = <<>>
           /\ Len(proc[p].err) = 1

C7_Witness ==
    /\ proc[1].pc = "done" /\ proc[1].code = 2
    /\ proc[1].argv = <<"--refuse", "--clear-warn-message", "-z">>
    /\ proc[1].mode = Some("Refuse")
    /\ fs0 = OldDisk

\* C8: in Warn mode a successful engine run prints the summary and then the
\* warn message and exits 0; in Apply mode the summary alone; an engine
\* failure prints no warn message and exits 1, in both modes.
WarnText(c) == IF c.warn_message.some THEN c.warn_message.val ELSE DEFAULT_WARN_MESSAGE

C8_WarnAfterSummary ==
    \A p \in Procs :
        (PatchRunDone(proc[p]) /\ proc[p].engine # "none")
        => /\ (proc[p].engine = "ok" /\ stored.mode = "Warn")
                => /\ proc[p].out = <<EngineSummary, Line1(WarnText(stored))>>
                   /\ proc[p].code = 0
           /\ (proc[p].engine = "ok" /\ stored.mode = "Apply")
                => /\ proc[p].out = <<EngineSummary>>
                   /\ proc[p].code = 0
           /\ proc[p].engine = "fail"
                => /\ \A j \in 1..Len(proc[p].out) :
                        proc[p].out[j] \notin {Line1(WarnText(stored)), Line1(WarnText(proc[p].cfg))}
                   /\ proc[p].code = 1

C8_Witness ==
    /\ PatchRunDone(proc[1]) /\ proc[1].engine = "ok"
    /\ stored.mode = "Warn" /\ stored.warn_message = Some("X")
    /\ proc[1].out = <<EngineSummary, Line1("X")>>

\* C9: --show-config reports the policy in force after the mutations asked
\* for so far, in this invocation or an earlier one: its mode, and custom or
\* default for each message.
ModeLiteral(m) == CASE m = "Apply" -> "apply" [] m = "Refuse" -> "refuse" [] m = "Warn" -> "warn"
CustomOrDefault(o) == IF o.some THEN "custom" ELSE "default"

C9_ShowReportsInForce ==
    \A p \in Procs :
        (proc[p].pc = "done" /\ proc[p].code = 0 /\ proc[p].show /\ ~HelpShown(proc[p]))
        => LET now == InForce(stored, proc[p])
           IN /\ Len(proc[p].out) = 4
              /\ proc[p].out[2] = Line2("mode: ", ModeLiteral(now.mode))
              /\ proc[p].out[3] = Line2("refuse_message: ", CustomOrDefault(now.refuse_message))
              /\ proc[p].out[4] = Line2("warn_message: ", CustomOrDefault(now.warn_message))

C9_Witness ==
    /\ proc[1].pc = "done" /\ proc[1].code = 0
    /\ proc[1].argv = <<"--show-config", "--mode", "warn">>
    /\ prev.valid /\ prev.code = 0 /\ prev.argv = <<"--set-refuse-message", "X">>
    /\ proc[1].out[2] = Line2("mode: ", "warn")
    /\ proc[1].out[3] = Line2("refuse_message: ", "custom")
    /\ proc[1].out[4] = Line2("warn_message: ", "default")

\* C10: the policy message a patch invocation prints is the override most
\* recently set, or the built-in text when the field was last cleared or was
\* never set.
RefuseText(c) == IF c.refuse_message.some THEN c.refuse_message.val ELSE DEFAULT_REFUSE_MESSAGE

C10_MessageInForce ==
    \A p \in Procs :
        PatchRunDone(proc[p])
        => /\ stored.mode = "Refuse" => proc[p].out = <<Line1(RefuseText(stored))>>
           /\ (stored.mode = "Warn" /\ proc[p].engine = "ok")
                => proc[p].out[Len(proc[p].out)] = Line1(WarnText(stored))

C10_Witness ==
    /\ fs0 = OldDisk
    /\ prev.valid /\ prev.code = 0 /\ prev.argv = <<"--clear-refuse-message">>
    /\ PatchRunDone(proc[1])
    /\ proc[1].out = <<Line1(DEFAULT_REFUSE_MESSAGE)>>

\* The while loop ran to the end of argv: no arm of it returned.
ScanCompleted(r) == r.pc = "done" /\ r.i >= Len(r.argv)
CombinedError == Line1("Error: configuration flags cannot be combined with a PATCH argument.")

\* C11 as stated: a command line on which the scan has met a configuration
\* flag and a positional token, in either order, exits 2 with the "cannot
\* be combined" message and leaves the files as they were.
C11_AnyArgvCombined ==
    \A p \in Procs :
        LET r == proc[p]
        IN (r.pc = "done" /\ has_config_flags(r) /\ r.positional # <<>>)
           => (r.code = 2 /\ r.err = <<CombinedError>> /\ fs = r.fs_start)

\* C11 amended: when the scan reaches the end of argv (no help flag, no
\* unknown option, no missing or invalid flag value stops it) and has met
\* a configuration flag and a positional token, in either order, the
\* invocation exits 2 with the "cannot be combined" message, loads
\* nothing and leaves the files as they were.
C11_CombinedAfterFullScan ==
    \A p \in Procs :
        LET r == proc[p]
            flag == r.show \/ r.mode.some \/ r.refuse_message.some \/ r.warn_message.some
        IN (ScanCompleted(r) /\ flag /\ r.positional # <<>>)
           => /\ r.code = 2
              /\ r.err = <<CombinedError>>
              /\ r.out = <<>>
              /\ ~HasLoaded(r) /\ ~r.saving
              /\ fs = r.fs_start

C11_Witness ==
    /\ proc[1].pc = "done" /\ proc[1].argv = <<"X", "--show-config">>
    /\ proc[1].code = 2 /\ proc[1].err = <<CombinedError>>
    /\ fs0 = OldDisk

UsageError == Line1("Usage: apply_patch 'PATCH'")
ExactlyOneError == Line1("Error: apply_patch accepts exactly one argument.")
AllPositional(a) == \A j \in 1..Len(a) : ~starts_with_dash(a[j])

\* C12: whatever mode is stored, an invocation with no argument whose
\* standard input is empty exits 2 with the "Usage:" message, and one with
\* two or more positionals exits 2 with the "accepts exactly one argument"
\* message without reading standard input; in both cases nothing is
\* printed to standard output, the engine is not invoked and the files
\* stay as they were.
C12_PayloadErrorsBeforeDispatch ==
    \A p \in Procs :
        LET r == proc[p]
            quiet == r.out = <<>> /\ r.engine = "none" /\ fs = r.fs_start
        IN /\ ( r.pc \in {"dispatch", "engine", "done"} /\ r.argv = <<>>
                /\ r.stdin = "empty" )
              => (r.pc = "done" /\ r.code = 2 /\ r.err = <<UsageError>> /\ quiet)
           /\ ( r.pc \in {"dispatch", "engine", "done"} /\ Len(r.argv) >= 2
                /\ AllPositional(r.argv) )
              => ( r.pc = "done" /\ r.code = 2 /\ r.err = <<ExactlyOneError>> /\ quiet
                   /\ r.stdin = "unread" )

C12_Witness ==
    /\ prev.valid /\ prev.argv = <<>> /\ prev.code = 2
    /\ proc[1].pc = "done" /\ proc[1].argv = <<"X", "X">>
    /\ proc[1].loaded.mode = "Refuse" /\ proc[1].loaded = stored
    /\ proc[1].code = 2 /\ proc[1].err = <<ExactlyOneError>>

NoPathError ==
    Line1("Error: could not determine config path (HOME/XDG_CONFIG_HOME not set).")
UnderDotDir(base) == base \o <<".apply_patch", "config.json">>

\* C13: an invocation that resolves the config path gets the override's
\* value verbatim when the override is set; else <config-home>/.apply_patch/
\* config.json when the config-home variable is set; else <home>/.apply_patch/
\* config.json when the home variable is set; it gets no path exactly when
\* none of the three is set, and then --show-config exits 1 with the
\* could-not-determine message, while otherwise it exits 0 and reports the
\* resolved path.
C13_PathPrecedence ==
    \A p \in Procs :
        LET r == proc[p]
            o == env.APPLY_PATCH_CONFIG
            x == env.XDG_CONFIG_HOME
            h == env.HOME
            unset == ~o.some /\ ~x.some /\ ~h.some
        IN /\ HasLoaded(r) =>
                /\ o.some => r.path = Some(o.val)
                /\ (~o.some /\ x.some) => r.path = Some(UnderDotDir(x.val))
                /\ (~o.some /\ ~x.some /\ h.some) => r.path = Some(UnderDotDir(h.val))
                /\ unset <=> ~r.path.some
           /\ (r.pc = "done" /\ r.argv = <<"--show-config">>) =>
                /\ unset <=> r.code = 1
                /\ unset => (r.err = <<NoPathError>> /\ r.out = <<>> /\ ~HasLoaded(r))
                /\ ~unset => ( r.code = 0 /\ r.err = <<>>
                               /\ r.out[1] = LinePath("Config file: ", r.path.val) )

C13_Witness ==
    /\ env.APPLY_PATCH_CONFIG.some /\ env.XDG_CONFIG_HOME.some /\ env.HOME.some
    /\ proc[1].pc = "done" /\ proc[1].argv = <<"--show-config">>
    /\ proc[1].out[1] = LinePath("Config file: ", OverrideFile)

C13_WitnessUnset ==
    /\ env = NoEnv
    /\ proc[1].pc = "done" /\ proc[1].argv = <<"--show-config">>
    /\ proc[1].code = 1 /\ proc[1].err = <<NoPathError>>

UsageTexts ==
    { "Error: --mode requires a value.", "Error: invalid --mode value: ",
      "Error: --set-refuse-message requires a value.",
      "Error: --set-warn-message requires a value.",
      "Error: unknown option: ", CombinedError.text, UsageError.text, ExactlyOneError.text }
OperationalTexts ==
    { NoPathError.text, "Error: failed to write config", "engine: diagnostics",
      "Error: Failed to read PATCH from stdin.",
      "Error: apply_patch requires a UTF-8 PATCH argument." }
MutationFlagSeen(r) == r.mode.some \/ r.refuse_message.some \/ r.warn_message.some
AnyFlagSeen(r) == r.show \/ MutationFlagSeen(r)
EnvUnset == ~env.APPLY_PATCH_CONFIG.some /\ ~env.XDG_CONFIG_HOME.some /\ ~env.HOME.some

\* C14: every invocation that ends has exit code 0, 1 or 2; the code is 2
\* exactly when it reported a usage or argument error, 1 exactly when it
\* reported an operational failure (unresolved path on a configuration
\* command, failed save, engine failure, standard input unreadable,
\* non-UTF-8 argument), and 0 exactly when it reported no error: help,
\* a configuration command that reported, the Refuse notice, or a
\* successful engine run.
C14_ExitCodeClassifies ==
    \A p \in Procs :
        LET r == proc[p]
            cfgcmd == ScanCompleted(r) /\ AnyFlagSeen(r) /\ r.positional = <<>>
        IN r.pc = "done" =>
           /\ r.code \in {0, 1, 2}
           /\ r.code = 2 <=> (Len(r.err) = 1 /\ r.err[1].text \in UsageTexts)
           /\ r.code = 1 <=> (Len(r.err) = 1 /\ r.err[1].text \in OperationalTexts)
           /\ r.code = 0 <=> r.err = <<>>
           /\ (\E j \in 1..Len(r.argv) : r.argv[j] = NonUtf8) => r.code = 1
           /\ r.engine = "fail" => r.code = 1
           /\ r.stdin = "error" => r.code = 1
           /\ (r.saving /\ ~r.renamed) => r.code = 1
           /\ (cfgcmd /\ EnvUnset) => r.code = 1
           /\ r.code = 0 <=>
                \/ HelpShown(r)
                \/ cfgcmd /\ ~EnvUnset /\ (MutationFlagSeen(r) => r.renamed)
                \/ r.engine = "none" /\ r.patch_arg # "" /\ r.cfg.mode = "Refuse"
                \/ r.engine = "ok"

C14_Witness ==
    /\ proc[1].pc = "done" /\ proc[1].argv = <<"--mode", "warn">>
    /\ proc[1].saving /\ proc[1].faults = {"write"} /\ proc[1].code = 1

HelpTokens == {"-h", "--help"}
ValueFlags == {"--mode", "--set-refuse-message", "--set-warn-message"}
PlainFlags ==
    {"--show-config", "--apply", "--refuse", "--warn", "--clear-refuse-message",
     "--clear-warn-message"}
ContainsHelp(a) == \E j \in 1..Len(a) : a[j] \in HelpTokens

\* Reading a from token j on, a help token is met in flag position before
\* anything ends the reading: a flag that takes a value takes the next
\* token whatever it is, and an unknown option, a missing value or an
\* invalid --mode value ends it.
RECURSIVE HelpReachedFrom(_, _)
HelpReachedFrom(a, j) ==
    IF j > Len(a) THEN FALSE
    ELSE IF a[j] \in HelpTokens THEN TRUE
    ELSE IF a[j] \in ValueFlags
         THEN /\ j + 1 <= Len(a)
              /\ a[j] = "--mode" => a[j + 1] \in {"apply", "refuse", "warn"}
              /\ HelpReachedFrom(a, j + 2)
    ELSE IF starts_with_dash(a[j]) /\ a[j] \notin PlainFlags THEN FALSE
    ELSE HelpReachedFrom(a, j + 1)

OnlyHelpDone(r) ==
    /\ r.code = 0 /\ r.out = <<HelpText>> /\ r.err = <<>>
    /\ ~HasLoaded(r) /\ ~r.saving /\ r.engine = "none" /\ r.stdin = "unread"
    /\ fs = r.fs_start

\* C15 as stated: an invocation whose argv contains -h or --help anywhere
\* prints the usage text, exits 0, reads and writes no config file and
\* does not invoke the engine.
C15_HelpAnywhere ==
    \A p \in Procs :
        (proc[p].pc = "done" /\ ContainsHelp(proc[p].argv)) => OnlyHelpDone(proc[p])

\* C15 amended: when the left-to-right scan reaches a -h or --help token
\* in flag position (no earlier unknown option, missing value or invalid
\* --mode value, and the token is not the value of the flag before it),
\* the invocation prints the usage text, exits 0, reads and writes no
\* config file and does not invoke the engine; it never goes past the scan.
C15_HelpWhenReached ==
    \A p \in Procs :
        LET r == proc[p]
        IN (r.pc # "idle" /\ HelpReachedFrom(r.argv, 1)) =>
              /\ r.pc \in {"scan", "done"}
              /\ r.pc = "done" => OnlyHelpDone(r)

C15_Witness ==
    /\ fs0 = OldDisk
    /\ proc[1].pc = "done" /\ proc[1].argv = <<"--refuse", "X", "--help">>
    /\ proc[1].code = 0 /\ proc[1].out = <<HelpText>>

SaveError == Line1("Error: failed to write config")
SaveReturnedErr(r) == r.pc = "done" /\ r.saving /\ r.code = 1 /\ r.err = <<SaveError>>

\* C16 as stated: a save returns an error only when its rename failed; an
\* error creating the parent directories, writing the temp file or
\* removing the old file does not by itself make the command exit 1.
C16_OnlyRenameReturned ==
    \A p \in Procs :
        SaveReturnedErr(proc[p]) => "rename" \in proc[p].faults

\* C16 amended: in save, removing the pre-existing file is the only step
\* whose failure is ignored: a save that ends returns an error (and the
\* command exits 1 with "failed to write config") exactly when creating
\* the parent directories, writing the temp file or the rename failed; a
\* failed removal alone leaves the save successful.
C16_OnlyRemoveIgnored ==
    \A p \in Procs :
        LET r == proc[p]
        IN (r.saving /\ r.pc \in {"report", "done"}) =>
              /\ (r.faults \cap {"mkdir", "write", "rename"} # {}) <=> SaveReturnedErr(r)
              /\ (r.faults \cap {"mkdir", "write", "rename"} = {}) <=> r.renamed
              /\ r.renamed => (r.pc = "done" => r.code = 0)

C16_Witness ==
    /\ proc[1].pc = "done" /\ proc[1].saving
    /\ proc[1].faults = {"remove"} /\ proc[1].renamed /\ proc[1].code = 0

C16_WitnessWrite ==
    /\ proc[1].pc = "done" /\ proc[1].saving
    /\ proc[1].faults = {"mkdir"} /\ proc[1].code = 1

\* A configuration command that got past the scan, the positional check
\* and the path resolution.
CfgCommandRan(r) ==
    /\ r.pc \in {"report", "done"}
    /\ ScanCompleted([r EXCEPT !.pc = "done"]) /\ AnyFlagSeen(r) /\ r.positional = <<>>
    /\ r.path.some

\* C17: a configuration command whose only configuration flag is
\* --show-config never starts a save and leaves the config file, the temp
\* file and the directory as they were; a command with a mode or message
\* flag (a clear of an absent message included) that has its path starts
\* exactly one save, and when that save succeeds the config file holds the
\* loaded config with the named fields set.  No invocation saves twice.
C17_SaveIffMutation ==
    \A p \in Procs :
        LET r == proc[p]
        IN /\ r.saves <= 1
           /\ (r.show /\ ~MutationFlagSeen(r)) => (r.saves = 0 /\ fs = r.fs_start)
           /\ (CfgCommandRan(r) /\ MutationFlagSeen(r)) =>
                /\ r.saves = 1
                /\ r.renamed =>
                      ( fs.cfg # 0 /\ fs.tmp = 0 /\ fs.dir
                        /\ fs.data[fs.cfg] = to_vec_pretty(r.cfg) )
           /\ r.saves = 1 => MutationFlagSeen(r)

C17_Witness ==
    /\ fs0 = FsEmpty
    /\ proc[1].pc = "done" /\ proc[1].argv = <<"--clear-warn-message">>
    /\ proc[1].saves = 1 /\ proc[1].renamed /\ proc[1].code = 0
    /\ fs # fs0

C17_WitnessShow ==
    /\ fs0 = FsEmpty
    /\ proc[1].pc = "done" /\ proc[1].argv = <<"--show-config">> /\ proc[1].code = 0
    /\ fs = fs0

AllWritersEnded == \A p \in Procs : proc[p].pc = "done" /\ MutationFlagSeen(proc[p])
LastRenamer ==
    CHOOSE w \in Procs :
        proc[w].renamed /\ \A q \in Procs : proc[q].rename_no <= proc[w].rename_no

\* C18: when config-mutating invocations ran side by side on one config
\* path and all have ended (no crash, no I/O error), and at least one
\* rename was performed, the config file holds exactly the serialisation
\* of the config computed by the writer whose rename was the last.
C18_LastRenameWins ==
    (AllWritersEnded /\ NoFault /\ \E p \in Procs : proc[p].renamed)
    => ( fs.cfg # 0 /\ fs.data[fs.cfg] = to_vec_pretty(proc[LastRenamer].cfg) )

\* C19: an invocation in whose argv the scan met no configuration flag
\* reads the config at most once and, whatever the mode, the payload and
\* the engine outcome, never starts a save and leaves the config file and
\* the temp file as they were; the config it dispatches on is the one that
\* load returned: the engine runs only when the loaded mode is not Refuse,
\* the Refuse notice is printed only when it is Refuse, and the warn
\* message only when it is Warn.
C19_PatchPathReadOnly ==
    \A p \in Procs :
        LET r == proc[p]
        IN (r.pc # "idle" /\ ~AnyFlagSeen(r)) =>
              /\ r.loads <= 1
              /\ r.saves = 0 /\ fs = r.fs_start
              /\ r.pc \in {"main_payload", "dispatch", "engine"} =>
                    (r.cfg = r.loaded /\ r.loads = IF r.path.some THEN 1 ELSE 0)
              /\ r.engine # "none" => (r.cfg = r.loaded /\ r.loaded.mode # "Refuse")
              /\ PatchRunDone(r) =>
                    /\ r.cfg = r.loaded
                    /\ r.loaded.mode = "Refuse" <=> r.engine = "none"
                    /\ r.loaded.mode = "Refuse" => r.out = <<Line1(RefuseText(r.loaded))>>
                    /\ (r.loaded.mode = "Warn" /\ r.engine = "ok")
                          => r.out = <<EngineSummary, Line1(WarnText(r.loaded))>>
                    /\ (r.loaded.mode = "Apply" /\ r.engine = "ok") => r.out = <<EngineSummary>>

C19_Witness ==
    /\ fs0 = OldDisk /\ fs = fs0
    /\ proc[1].argv = <<"X">> /\ PatchRunDone(proc[1])
    /\ proc[1].loads = 1 /\ proc[1].loaded = OldConfig
    /\ proc[1].out = <<Line1("old")>> /\ proc[1].code = 0

MessagesOfForeignDoc ==
    [mode |-> "Apply", refuse_message |-> Some("old"), warn_message |-> NoneStr]

\* C20: a load of a JSON document whose mode is absent or is none of
\* apply/refuse/warn returns mode Apply together with the refuse_message
\* and warn_message stored in the document.
C20_FieldByFieldDefaults ==
    \A p \in Procs :
        LET r == proc[p]
        IN ( /\ r.load_result \in {"ok", "undecodable"}
             /\ r.fs_start.cfg # 0
             /\ r.fs_start.data[r.fs_start.cfg] \in {NoModeDoc, BadModeDoc} )
           => r.loaded = MessagesOfForeignDoc

\* The half of C20 the code keeps: an absent mode is defaulted and the
\* stored messages are returned.
AbsentModeKeepsMessages ==
    \A p \in Procs :
        LET r == proc[p]
        IN ( /\ r.load_result \in {"ok", "undecodable"}
             /\ r.fs_start.cfg # 0
             /\ r.fs_start.data[r.fs_start.cfg] = NoModeDoc )
           => (r.load_result = "ok" /\ r.loaded = MessagesOfForeignDoc)

\* What a load of the config file as it now is returns.
Persisted == load_config(fs_read(fs, FALSE))
SavedOk(r) == r.pc \in {"report", "done"} /\ r.renamed

\* C21: after a configuration command has saved, each of mode,
\* refuse_message and warn_message that no flag of its argv targets has in
\* the config file the value the command loaded at its start, and each
\* targeted one the value its flag names; so the file holds what the
\* successful commands run one after the other so far have set, field by
\* field.
C21_UntargetedFieldsKept ==
    \A p \in Procs :
        LET r == proc[p]
        IN SavedOk(r) =>
             /\ ~r.mode.some => Persisted.mode = r.loaded.mode
             /\ ~r.refuse_message.some => Persisted.refuse_message = r.loaded.refuse_message
             /\ ~r.warn_message.some => Persisted.warn_message = r.loaded.warn_message
             /\ r.mode.some => Persisted.mode = r.mode.val
             /\ r.refuse_message.some => Persisted.refuse_message = r.refuse_message.val
             /\ r.warn_message.some => Persisted.warn_message = r.warn_message.val
             /\ r.loaded = stored
             /\ Persisted = InForce(stored, r)

C21_Witness ==
    /\ fs0 = OldDisk
    /\ prev.valid /\ prev.code = 0 /\ prev.argv = <<"--set-warn-message", "X">>
    /\ proc[1].pc = "done" /\ proc[1].argv = <<"--mode", "warn">> /\ proc[1].renamed
    /\ Persisted = [mode |-> "Warn", refuse_message |-> Some("old"),
                    warn_message |-> Some("X")]

ModeFlags == {"--mode", "--apply", "--refuse", "--warn"}
MaxOf(S) == CHOOSE m \in S : \A n \in S : n <= m

\* The positions of a, from j on, that hold a flag and not the value of the
\* flag before them.
RECURSIVE FlagPositions(_, _)
FlagPositions(a, j) ==
    IF j > Len(a) THEN {}
    ELSE {j} \cup FlagPositions(a, IF a[j] \in ValueFlags THEN j + 2 ELSE j + 1)

ModeNamedAt(a, j) ==
    CASE a[j] = "--mode" -> parse_mode(a[j + 1]).val
      [] a[j] = "--apply" -> "Apply"
      [] a[j] = "--refuse" -> "Refuse"
      [] a[j] = "--warn" -> "Warn"

\* The message a set flag at j names, or none for a clear flag at j.
MessageNamedAt(a, j, setFlag) == IF a[j] = setFlag THEN Some(a[j + 1]) ELSE NoneStr

\* C22: after a configuration command has saved, for each field that its
\* argv names, once or several times, the config file holds what the
\* rightmost flag for that field names: the mode of the last mode flag,
\* and for a message the value of a set that comes last or no message when
\* a clear comes last.
C22_RightmostFlagDecides ==
    \A p \in Procs :
        LET r == proc[p]
            a == r.argv
            F == FlagPositions(a, 1)
            M == {j \in F : a[j] \in ModeFlags}
            R == {j \in F : a[j] \in {"--set-refuse-message", "--clear-refuse-message"}}
            W == {j \in F : a[j] \in {"--set-warn-message", "--clear-warn-message"}}
        IN SavedOk(r) =>
             /\ M # {} => Persisted.mode = ModeNamedAt(a, MaxOf(M))
             /\ R # {} => Persisted.refuse_message
                             = MessageNamedAt(a, MaxOf(R), "--set-refuse-message")
             /\ W # {} => Persisted.warn_message
                             = MessageNamedAt(a, MaxOf(W), "--set-warn-message")

C22_Witness ==
    /\ fs0 = OldDisk
    /\ proc[1].pc = "done" /\ proc[1].renamed
    /\ proc[1].argv = <<"--set-refuse-message", "X", "--clear-refuse-message">>
    /\ Persisted.refuse_message = NoneStr /\ Persisted.mode = "Refuse"

C22_WitnessMode ==
    /\ proc[1].pc = "done" /\ proc[1].renamed
    /\ proc[1].argv = <<"--mode", "warn", "--apply">>
    /\ Persisted.mode = "Apply"

\* The invocation is past the scan and on the patch path.
OnPatchPath(r) ==
    \/ r.pc \in {"main_payload", "dispatch", "engine"}
    \/ r.pc = "done" /\ ScanCompleted(r) /\ ~AnyFlagSeen(r)

\* C23: when none of the three variables is set, an invocation on the
\* patch path reads no file and goes on with the all-defaults config: a
\* payload it has got is handed to the engine as in Apply mode, and its
\* exit code is 2 or 1 from the payload acquisition, or 0 or 1 from the
\* engine; the could-not-determine message and its exit 1 come only from
\* configuration commands.
C23_NoPathIsNotAnErrorForPatch ==
    \A p \in Procs :
        LET r == proc[p]
        IN /\ (EnvUnset /\ OnPatchPath(r)) =>
                /\ r.load_result = "nopath" /\ r.loads = 0 /\ ~r.path.some
                /\ r.cfg = ConfigDefault
                /\ r.pc = "done" =>
                     /\ Len(r.argv) >= 2 => (r.code = 2 /\ r.engine = "none")
                     /\ r.stdin = "empty" => (r.code = 2 /\ r.engine = "none")
                     /\ r.stdin = "error" => (r.code = 1 /\ r.engine = "none")
                     /\ (Len(r.argv) = 1 \/ r.stdin = "text") =>
                           /\ r.engine \in {"ok", "fail"}
                           /\ r.engine = "ok" => (r.code = 0 /\ r.out = <<EngineSummary>>)
                           /\ r.engine = "fail" => (r.code = 1 /\ r.out = <<>>)
                     /\ r.err # <<NoPathError>>
           /\ (r.pc = "done" /\ r.err = <<NoPathError>>) =>
                ( EnvUnset /\ r.code = 1 /\ ScanCompleted(r) /\ AnyFlagSeen(r)
                  /\ r.positional = <<>> )

C23_Witness ==
    /\ env = NoEnv
    /\ proc[1].pc = "done" /\ proc[1].argv = <<"X">>
    /\ proc[1].load_result = "nopath" /\ proc[1].engine = "ok" /\ proc[1].code = 0

\* C24: when config-mutating invocations ran side by side on one config
\* path and all have ended, with no crash and no I/O error from the file
\* system, each of them performed its rename and exited 0 without
\* reporting "failed to write config".
C24_ConcurrentWritersSucceed ==
    (AllWritersEnded /\ NoFault)
    => \A p \in Procs :
          proc[p].renamed /\ proc[p].code = 0 /\ proc[p].err = <<>>

\* States of the lifecycle: Idle -> {ConfigCommand | PatchExecution} ->
\* Terminated, with the argv scan between Idle and the two paths.
Phase(r) ==
    CASE r.pc = "idle" -> "Idle"
      [] r.pc = "scan" -> "Scan"
      [] r.pc \in {"cfg_path", "cfg_load", "save_mkdir", "save_open", "save_write",
                   "save_exists", "save_remove", "save_rename", "report"} -> "ConfigCommand"
      [] r.pc \in {"main_load", "main_payload", "dispatch", "engine"} -> "PatchExecution"
      [] OTHER -> "Terminated"

PhaseOrder ==
    { <<"Idle", "Scan">>, <<"Idle", "Terminated">>,
      <<"Scan", "Scan">>, <<"Scan", "ConfigCommand">>, <<"Scan", "PatchExecution">>,
      <<"Scan", "Terminated">>,
      <<"ConfigCommand", "ConfigCommand">>, <<"ConfigCommand", "Terminated">>,
      <<"PatchExecution", "PatchExecution">>, <<"PatchExecution", "Terminated">> }

LifecycleState ==
    \A p \in Procs :
        LET r == proc[p]
        IN /\ r.i <= Len(r.argv)
           /\ Phase(r) = "Terminated" <=> r.code \in {0, 1, 2}
           /\ Phase(r) # "Terminated" => r.code = -1
           /\ Phase(r) = "ConfigCommand" => (AnyFlagSeen(r) /\ r.positional = <<>>)
           /\ Phase(r) = "PatchExecution" => ~AnyFlagSeen(r)

LifecycleStep ==
    \A p \in Procs :
        LET r == proc[p]
            n == proc'[p]
        IN n # r =>
             /\ <<Phase(r), Phase(n)>> \in PhaseOrder
             /\ (Phase(r) = "Scan" /\ Phase(n) = "Scan") => n.i \in {r.i + 1, r.i + 2}
             /\ (Phase(r) = "Scan" /\ Phase(n) # "Scan") => n.i = r.i

\* C25: every invocation goes Idle -> scan -> {ConfigCommand |
\* PatchExecution} -> Terminated or exits straight from the scan, never
\* from one path to the other and never out of Terminated; each step of
\* the scan advances the index by one or two and the index never exceeds
\* the argument count; an invocation has an exit code exactly when it is
\* Terminated; and a started invocation that keeps being scheduled reaches
\* Terminated.
C25_TerminatesOnce ==
    /\ []LifecycleState
    /\ [][LifecycleStep]_vars
    /\ (proc[1].pc # "idle") ~> (proc[1].pc = "done")

C25_Witness ==
    /\ proc[1].pc = "done" /\ proc[1].argv = <<"--mode", "warn", "--show-config">>
    /\ proc[1].i = 3 /\ proc[1].code = 0 /\ proc[1].renamed

====
